---------------------------- MODULE Spec2Model ----------------------------
(***************************************************************************)
(* A model of webapp/server.py: the rtl_airband control panel.             *)
(*                                                                         *)
(*   - the process supervisor (the global `process`, POST /start and       *)
(*     POST /stop), one request handler per thread;                        *)
(*   - the log tailer threads (_read_output) and the bounded log buffer    *)
(*     (log_lines, log_lock), read by GET /logs;                           *)
(*   - the recordings listing and download (_get_recordings_dir, index,    *)
(*     serve_recording).                                                   *)
(*                                                                         *)
(* A child process is an integer 1, 2, ... in spawn order; 0 is None.      *)
(* Characters of a log line are character codes (naturals); a code above   *)
(* 32 stands for a printable word, so that every line a child writes is    *)
(* distinct.                                                               *)
(***************************************************************************)
EXTENDS Integers, Sequences, FiniteSets, TLC

(* ------------------------------ bounds -------------------------------- *)

\* requests served in one run of the threaded server
MaxReq == 2
\* lines the children write in one run of the supervisor
MaxLines == 2
\* lines the pipe between a child and its tailer holds before a write blocks
PipeCap == 2
\* lines the child writes in a run that fills the log buffer
LogLines == 250
\* entries of the recordings directory
MaxEntries == 3

(* -------------------------- program constants ------------------------- *)

\* log_lines = deque(maxlen=200)
maxlen == 200

\* requests served in one run of the server that serves them one at a time
MaxSeqReq == MaxReq + 1
\* the requests, in order of arrival; each is served by a thread of its own
Reqs == 1..MaxSeqReq
\* every child is spawned by a request, and so is every tailer
Children == 1..MaxSeqReq
Tailers == 1..MaxSeqReq

VARIABLES
    process,     \* the global `process`: 0 (None) or the child last stored
    nspawned,    \* children spawned so far (Popen calls that succeeded)
    alive,       \* the children that have not exited (poll() is None)
    sigs,        \* sigs[c]: the signals delivered to child c
    quota,       \* the lines the children still write before they are silent
    nwritten,    \* nwritten[c]: lines child c has written to its stdout/stderr
    pipe,        \* pipe[c]: the lines written by c and not yet read
    closed,      \* closed[c]: pipe.close() was called on c's stdout object
    ntailers,    \* tailer threads launched so far
    tpipe,       \* tpipe[k]: the child whose stdout tailer k was given
    tpc,         \* tpc[k]: where tailer k is in _read_output
    tline,       \* tline[k]: the line tailer k holds (the loop variable `line`)
    log_lines,   \* the deque
    log_lock,    \* <<>> when free, else its holder: <<"req", r>> or <<"tail", k>>
    threaded,    \* TRUE: handlers of different requests overlap
    nreq,        \* requests arrived so far
    pc,          \* pc[r]: where the handler of request r is
    op,          \* op[r]: the route of request r ("start", "stop", "logs")
    resp,        \* resp[r]: the response to request r
    lines,       \* lines[r]: the local `lines` of get_logs(), the 'lines' of its response
    bound,       \* bound[r]: the Popen object stop_airband is waiting on
    sent,        \* sent[r]: the signals the handler of r sent (terminate, kill), in order
    path,        \* path[r]: "graceful" or "forced" once stop_airband took that way
    cfg,         \* airband.conf: [kind |-> "missing" | "denied" | "text", text |-> ...]
    dirs,        \* the directories that exist: path -> set of [name, kind]
    page,        \* the response of index(), with the recordings it rendered
    http         \* the response of serve_recording()

supVars == <<process, nspawned, alive, sigs>>
outVars == <<quota, nwritten, pipe, closed>>
tailVars == <<ntailers, tpipe, tpc, tline>>
logVars == <<log_lines, log_lock>>
reqVars == <<threaded, nreq, pc, op, resp, lines, bound, sent, path>>
recVars == <<cfg, dirs, page, http>>
vars == <<supVars, outVars, tailVars, logVars, reqVars, recVars>>

(* ------------------------------ log lines ------------------------------ *)

\* str.rstrip() with no argument strips these (ASCII) characters
IsSpace(ch) == ch \in {9, 10, 11, 12, 13, 32}

\* the text of the k-th line child c writes, without its terminator: a word,
\* and on every second line a blank (32) after it
LineText(c, k) == <<1000 * c + k>> \o (IF k % 2 = 0 THEN <<32>> ELSE <<>>)

\* the k-th line as readline() returns it: the text and the newline (10)
Line(c, k) == LineText(c, k) \o <<10>>

RECURSIVE rstrip(_)
rstrip(s) ==
    IF s # <<>> /\ IsSpace(s[Len(s)]) THEN rstrip(SubSeq(s, 1, Len(s) - 1)) ELSE s

\* a plain list used as the buffer: nothing is ever dropped
DequeAppendUnbounded(q, x) == Append(q, x)

\* a bounded queue that refuses the new item when it is full
DequeAppendDropsNewest(q, x) ==
    IF Len(q) >= maxlen THEN q ELSE Append(q, x)

\* deque.append on a deque with maxlen: a full deque drops its leftmost item
DequeAppend(q, x) ==
    IF Len(q) >= maxlen THEN Tail(q) \o <<x>> ELSE Append(q, x)

(* ------------------------------- children ------------------------------ *)

\* Popen.poll() is None
PollIsNone(c) == c \in alive

\* the child writes its next line; the write blocks while the pipe is full
ChildWrite(c) ==
    /\ c \in alive
    /\ quota > 0
    /\ Len(pipe[c]) < PipeCap
    /\ quota' = quota - 1
    /\ nwritten' = [nwritten EXCEPT ![c] = @ + 1]
    /\ pipe' = [pipe EXCEPT ![c] = Append(@, Line(c, nwritten[c] + 1))]
    /\ UNCHANGED <<supVars, closed, tailVars, logVars, reqVars, recVars>>

\* the child exits: on its own, on SIGTERM, or killed
ChildExit(c) ==
    /\ c \in alive
    /\ alive' = alive \ {c}
    /\ UNCHANGED <<process, nspawned, sigs, outVars, tailVars, logVars, reqVars, recVars>>

(* ------------------------------- tailers ------------------------------- *)

Tail_(k) == <<"tail", k>>
Req_(r) == <<"req", r>>

\* line 16: pipe.readline() in `for line in iter(pipe.readline, '')`
TailerReadline(k) ==
    /\ tpc[k] = "readline"
    /\ LET c == tpipe[k] IN
       IF closed[c]
       THEN \* ValueError: I/O operation on closed file
            /\ tpc' = [tpc EXCEPT ![k] = "fault"]
            /\ UNCHANGED <<tline, pipe>>
       ELSE IF pipe[c] # <<>>
       THEN /\ tline' = [tline EXCEPT ![k] = Head(pipe[c])]
            /\ pipe' = [pipe EXCEPT ![c] = Tail(@)]
            /\ tpc' = [tpc EXCEPT ![k] = "lock"]
       ELSE \* readline returns '' at end of stream, and blocks before it
            /\ c \notin alive
            /\ tpc' = [tpc EXCEPT ![k] = "close"]
            /\ UNCHANGED <<tline, pipe>>
    /\ UNCHANGED <<supVars, quota, nwritten, closed, ntailers, tpipe, logVars, reqVars, recVars>>

\* _read_output() that enters its block without waiting for the lock
TailerAcquireNoWait(k) ==
    /\ tpc[k] = "lock"
    /\ log_lock' = Tail_(k)
    /\ tpc' = [tpc EXCEPT ![k] = "append"]
    /\ UNCHANGED <<supVars, outVars, ntailers, tpipe, tline, log_lines, reqVars, recVars>>

\* line 17: with log_lock
TailerAcquire(k) ==
    /\ tpc[k] = "lock"
    /\ log_lock = <<>>
    /\ log_lock' = Tail_(k)
    /\ tpc' = [tpc EXCEPT ![k] = "append"]
    /\ UNCHANGED <<supVars, outVars, ntailers, tpipe, tline, log_lines, reqVars, recVars>>

\* line 18, and the release of the lock on leaving the with block
TailerAppend(k) ==
    /\ tpc[k] = "append"
    /\ log_lock = Tail_(k)
    /\ log_lines' = DequeAppend(log_lines, rstrip(tline[k]))
    /\ log_lock' = <<>>
    /\ tpc' = [tpc EXCEPT ![k] = "readline"]
    /\ tline' = [tline EXCEPT ![k] = <<>>]
    /\ UNCHANGED <<supVars, outVars, ntailers, tpipe, reqVars, recVars>>

\* line 19: pipe.close()
TailerClose(k) ==
    /\ tpc[k] = "close"
    /\ closed' = [closed EXCEPT ![tpipe[k]] = TRUE]
    /\ tpc' = [tpc EXCEPT ![k] = "done"]
    /\ UNCHANGED <<supVars, quota, nwritten, pipe, ntailers, tpipe, tline, logVars, reqVars, recVars>>

(* ------------------------------ recordings ----------------------------- *)

\* A text is a sequence of one-character strings.
Quote == "\""
Space == {" ", "\n", "\t"}
Ascii ==
    [ch \in {"\t", "\n", " ", "\"", ".", "/", "3", "=", "A", "B", "V", "W",
             "a", "b", "c", "d", "e", "g", "i", "m", "n", "o", "p", "q", "r",
             "t", "x", "y"} |->
        CASE ch = "\t" -> 9 [] ch = "\n" -> 10 [] ch = " " -> 32 [] ch = "\"" -> 34
          [] ch = "." -> 46 [] ch = "/" -> 47 [] ch = "3" -> 51 [] ch = "=" -> 61
          [] ch = "A" -> 65 [] ch = "B" -> 66 [] ch = "V" -> 86 [] ch = "W" -> 87
          [] ch = "a" -> 97 [] ch = "b" -> 98 [] ch = "c" -> 99 [] ch = "d" -> 100
          [] ch = "e" -> 101 [] ch = "g" -> 103 [] ch = "i" -> 105 [] ch = "m" -> 109
          [] ch = "n" -> 110 [] ch = "o" -> 111 [] ch = "p" -> 112 [] ch = "q" -> 113
          [] ch = "r" -> 114 [] ch = "t" -> 116 [] ch = "x" -> 120 [] ch = "y" -> 121]

\* str.lower(), on the letters of the model
LowerChar(ch) ==
    CASE ch = "A" -> "a" [] ch = "B" -> "b" [] ch = "V" -> "v" [] ch = "W" -> "w"
      [] OTHER -> ch
Lower(s) == [i \in 1..Len(s) |-> LowerChar(s[i])]

\* str.endswith(suffix)
EndsWith(s, suffix) ==
    /\ Len(suffix) <= Len(s)
    /\ SubSeq(s, Len(s) - Len(suffix) + 1, Len(s)) = suffix

\* line 48: the tuple of suffixes
AudioSuffixes == {<<".", "m", "p", "3">>, <<".", "w", "a", "v">>, <<".", "o", "g", "g">>}

\* the order of str: by code point, a proper prefix first
RECURSIVE StrLess(_, _)
StrLess(a, b) ==
    IF b = <<>> THEN FALSE
    ELSE IF a = <<>> THEN TRUE
    ELSE IF Ascii[a[1]] # Ascii[b[1]] THEN Ascii[a[1]] < Ascii[b[1]]
    ELSE StrLess(Tail(a), Tail(b))

\* sorted() of a set of distinct strings
RECURSIVE Sorted(_)
Sorted(S) ==
    IF S = {} THEN <<>>
    ELSE LET m == CHOOSE x \in S : \A y \in S \ {x} : StrLess(x, y)
         IN <<m>> \o Sorted(S \ {m})

\* the pattern r"directory\s*=\s*\"([^\"]+)\"" tried at position i of text:
\* <<>> when it does not match there, else the group
Keyword == <<"d", "i", "r", "e", "c", "t", "o", "r", "y">>

RECURSIVE SkipSpace(_, _)
SkipSpace(text, i) ==
    IF i <= Len(text) /\ text[i] \in Space THEN SkipSpace(text, i + 1) ELSE i

RECURSIVE SkipToQuote(_, _)
SkipToQuote(text, i) ==
    IF i <= Len(text) /\ text[i] # Quote THEN SkipToQuote(text, i + 1) ELSE i

MatchAt(text, i) ==
    IF i + Len(Keyword) - 1 > Len(text) \/ SubSeq(text, i, i + Len(Keyword) - 1) # Keyword
    THEN <<>>
    ELSE LET e == SkipSpace(text, i + Len(Keyword)) IN
         IF e > Len(text) \/ text[e] # "=" THEN <<>>
         ELSE LET q == SkipSpace(text, e + 1) IN
              IF q > Len(text) \/ text[q] # Quote THEN <<>>
              ELSE LET z == SkipToQuote(text, q + 1) IN
                   IF z > Len(text) \/ z = q + 1 THEN <<>>
                   ELSE SubSeq(text, q + 1, z - 1)

\* re.search: the match at the leftmost position that has one
RECURSIVE Search(_, _)
Search(text, i) ==
    IF i > Len(text) THEN <<>>
    ELSE IF MatchAt(text, i) # <<>> THEN MatchAt(text, i)
    ELSE Search(text, i + 1)

\* _get_recordings_dir() without its except clause: a missing file raises
GetRecordingsDirNoCatch ==
    IF cfg.kind \in {"missing", "denied"} THEN [kind |-> "raise", value |-> <<>>]
    ELSE LET g == Search(cfg.text, 1) IN
         IF g # <<>> THEN [kind |-> "path", value |-> g]
         ELSE [kind |-> "none", value |-> <<>>]

\* lines 22-39: _get_recordings_dir(). None is [kind |-> "none"]; an error
\* of open() other than FileNotFoundError is not caught
GetRecordingsDir ==
    IF cfg.kind = "missing" THEN [kind |-> "none", value |-> <<>>]
    ELSE IF cfg.kind = "denied" THEN [kind |-> "raise", value |-> <<>>]
    ELSE LET g == Search(cfg.text, 1) IN
         IF g # <<>> THEN [kind |-> "path", value |-> g]
         ELSE [kind |-> "none", value |-> <<>>]

\* os.path.isdir and os.listdir
IsDir(dir) == dir \in DOMAIN dirs
ListDir(dir) == {e.name : e \in dirs[dir]}

NoDirs == [dir \in {} |-> {}]
NoPage == [status |-> 0, recordings |-> <<>>]
NoResponse == [status |-> 0, body |-> <<>>]
NotConfigured == <<"Recording directory not configured">>

\* lines 43-50: index()
Index ==
    /\ LET d == GetRecordingsDir IN
       page' =
         IF d.kind = "raise" THEN [status |-> 500, recordings |-> <<>>]
         ELSE IF d.kind = "path" /\ IsDir(d.value)
         THEN [status |-> 200,
               recordings |-> Sorted({f \in ListDir(d.value) :
                                 \E suf \in AudioSuffixes : EndsWith(Lower(f), suf)})]
         ELSE [status |-> 200, recordings |-> <<>>]
    /\ UNCHANGED <<supVars, outVars, tailVars, logVars, reqVars, cfg, dirs, http>>

\* line 57: send_from_directory(directory, filename) sends a regular file of
\* the directory, and answers 404 for anything else
SendFromDirectory(directory, filename) ==
    IF IsDir(directory) /\ [name |-> filename, kind |-> "file"] \in dirs[directory]
    THEN [status |-> 200, body |-> filename]
    ELSE [status |-> 404, body |-> <<"Not Found">>]

\* lines 54-58: serve_recording(filename)
ServeRecording(filename) ==
    /\ LET d == GetRecordingsDir IN
       http' =
         IF d.kind = "raise" THEN [status |-> 500, body |-> <<>>]
         ELSE IF d.kind = "path" THEN SendFromDirectory(d.value, filename)
         ELSE [status |-> 404, body |-> NotConfigured]
    /\ UNCHANGED <<supVars, outVars, tailVars, logVars, reqVars, cfg, dirs, page>>

(* -------------------------- request handlers --------------------------- *)

\* request r arrives and its handler is entered; without threading, only when
\* no other handler is running
Begin(r, route) ==
    /\ r = nreq + 1
    /\ r <= (IF threaded THEN MaxReq ELSE MaxSeqReq)
    /\ pc[r] = "new"
    /\ threaded \/ \A q \in Reqs : pc[q] \in {"new", "done"}
    /\ nreq' = r
    /\ op' = [op EXCEPT ![r] = route]

\* the test written as `process.poll() is not None`
TrackedRunningInverted == process # 0 /\ ~PollIsNone(process)

\* line 64: process and process.poll() is None
TrackedRunning == process # 0 /\ PollIsNone(process)

\* start_airband() without its guard: every call spawns
StartCheckAlwaysSpawns(r) ==
    /\ Begin(r, "start")
    /\ pc' = [pc EXCEPT ![r] = "popen"]
    /\ UNCHANGED <<supVars, outVars, tailVars, logVars, threaded, resp, bound, lines, sent, path, recVars>>

\* lines 64-65
StartCheck(r) ==
    /\ Begin(r, "start")
    /\ IF TrackedRunning
       THEN /\ pc' = [pc EXCEPT ![r] = "done"]
            /\ resp' = [resp EXCEPT ![r] = "already_running"]
       ELSE /\ pc' = [pc EXCEPT ![r] = "popen"]
            /\ UNCHANGED resp
    /\ UNCHANGED <<supVars, outVars, tailVars, logVars, threaded, bound, lines, sent, path, recVars>>

\* start_airband() that empties the log for the new process instance
StartPopenClearsLog(r) ==
    /\ pc[r] = "popen"
    /\ LET c == nspawned + 1 IN
       /\ nspawned' = c
       /\ alive' = alive \cup {c}
       /\ process' = c
    /\ log_lines' = <<>>
    /\ pc' = [pc EXCEPT ![r] = "thread"]
    /\ UNCHANGED <<sigs, outVars, tailVars, log_lock, threaded, nreq, op, resp,
                   bound, lines, sent, path, recVars>>

\* lines 69-76: the child is spawned and stored in the global. No other thread
\* can reach the child before the store, so the two are one step.
StartPopen(r) ==
    /\ pc[r] = "popen"
    /\ LET c == nspawned + 1 IN
       /\ nspawned' = c
       /\ alive' = alive \cup {c}
       /\ process' = c
    /\ pc' = [pc EXCEPT ![r] = "thread"]
    /\ UNCHANGED <<sigs, outVars, tailVars, logVars, threaded, nreq, op, resp,
                   bound, lines, sent, path, recVars>>

\* start_airband() that resets the handle when the spawn fails (process = None)
StartPopenFailsResets(r) ==
    /\ pc[r] = "popen"
    /\ process' = 0
    /\ pc' = [pc EXCEPT ![r] = "done"]
    /\ resp' = [resp EXCEPT ![r] = "fault"]
    /\ UNCHANGED <<nspawned, alive, sigs, outVars, tailVars, logVars, threaded, nreq, op,
                   bound, lines, sent, path, recVars>>

\* lines 69-76: Popen raises (rtl_airband cannot be executed); nothing catches it
StartPopenFails(r) ==
    /\ pc[r] = "popen"
    /\ pc' = [pc EXCEPT ![r] = "done"]
    /\ resp' = [resp EXCEPT ![r] = "fault"]
    /\ UNCHANGED <<supVars, outVars, tailVars, logVars, threaded, nreq, op,
                   bound, lines, sent, path, recVars>>

\* lines 77-78: the tailer is given process.stdout, `process` read again
StartThread(r) ==
    /\ pc[r] = "thread"
    /\ LET k == ntailers + 1 IN
       /\ ntailers' = k
       /\ tpipe' = [tpipe EXCEPT ![k] = process]
       /\ tpc' = [tpc EXCEPT ![k] = "readline"]
    /\ pc' = [pc EXCEPT ![r] = "done"]
    /\ resp' = [resp EXCEPT ![r] = "started"]
    /\ UNCHANGED <<supVars, outVars, tline, logVars, threaded, nreq, op,
                   bound, lines, sent, path, recVars>>

\* Popen.send_signal, called by terminate() and kill(): the call is recorded
\* in sent[r]; the signal reaches the child only if it has not exited
SendSignal(r, c, sig) ==
    /\ sent' = [sent EXCEPT ![r] = Append(@, <<sig, c>>)]
    /\ sigs' = IF PollIsNone(c) THEN [sigs EXCEPT ![c] = @ \cup {sig}] ELSE sigs

\* stop_airband() that forgets a child it finds exited (process = None)
StopCheckClearsHandle(r) ==
    /\ Begin(r, "stop")
    /\ IF process # 0 /\ PollIsNone(process)
       THEN /\ pc' = [pc EXCEPT ![r] = "terminate"]
            /\ UNCHANGED <<resp, process>>
       ELSE /\ pc' = [pc EXCEPT ![r] = "done"]
            /\ resp' = [resp EXCEPT ![r] = "not_running"]
            /\ process' = 0
    /\ UNCHANGED <<nspawned, alive, sigs, outVars, tailVars, logVars, threaded, bound, lines,
                   sent, path, recVars>>

\* lines 84 and 91
StopCheck(r) ==
    /\ Begin(r, "stop")
    /\ IF TrackedRunning
       THEN /\ pc' = [pc EXCEPT ![r] = "terminate"]
            /\ UNCHANGED resp
       ELSE /\ pc' = [pc EXCEPT ![r] = "done"]
            /\ resp' = [resp EXCEPT ![r] = "not_running"]
    /\ UNCHANGED <<supVars, outVars, tailVars, logVars, threaded, bound, lines, sent, path, recVars>>

\* stop_airband() that calls process.kill() where it should call terminate()
StopTerminateKills(r) ==
    /\ pc[r] = "terminate"
    /\ SendSignal(r, process, "KILL")
    /\ pc' = [pc EXCEPT ![r] = "wait"]
    /\ UNCHANGED <<process, nspawned, alive, outVars, tailVars, logVars, threaded,
                   nreq, op, resp, bound, lines, path, recVars>>

\* line 85: process.terminate(), `process` read again
StopTerminate(r) ==
    /\ pc[r] = "terminate"
    /\ SendSignal(r, process, "TERM")
    /\ pc' = [pc EXCEPT ![r] = "wait"]
    /\ UNCHANGED <<process, nspawned, alive, outVars, tailVars, logVars, threaded,
                   nreq, op, resp, bound, lines, path, recVars>>

\* line 87: process.wait(timeout=5) is called on the object `process` names now
StopWaitCall(r) ==
    /\ pc[r] = "wait"
    /\ bound' = [bound EXCEPT ![r] = process]
    /\ pc' = [pc EXCEPT ![r] = "waiting"]
    /\ UNCHANGED <<supVars, outVars, tailVars, logVars, threaded, nreq, op, resp,
                   lines, sent, path, recVars>>

\* lines 87 and 90: the child exited within the timeout
StopWaitReturns(r) ==
    /\ pc[r] = "waiting"
    /\ ~PollIsNone(bound[r])
    /\ path' = [path EXCEPT ![r] = "graceful"]
    /\ pc' = [pc EXCEPT ![r] = "done"]
    /\ resp' = [resp EXCEPT ![r] = "stopped"]
    /\ UNCHANGED <<supVars, outVars, tailVars, logVars, threaded, nreq, op,
                   bound, lines, sent, recVars>>

\* stop_airband() that waits without a timeout: process.wait() never raises
\* TimeoutExpired
StopWaitNoTimeout(r) ==
    /\ pc[r] = "waiting"
    /\ PollIsNone(bound[r])
    /\ FALSE
    /\ UNCHANGED vars

\* lines 87-88: TimeoutExpired, the child is still running after 5 seconds
StopWaitTimesOut(r) ==
    /\ pc[r] = "waiting"
    /\ PollIsNone(bound[r])
    /\ pc' = [pc EXCEPT ![r] = "kill"]
    /\ UNCHANGED <<supVars, outVars, tailVars, logVars, threaded, nreq, op, resp,
                   bound, lines, sent, path, recVars>>

\* stop_airband() that forgets the child it has just killed (process = None)
StopKillForgets(r) ==
    /\ pc[r] = "kill"
    /\ SendSignal(r, process, "KILL")
    /\ process' = 0
    /\ path' = [path EXCEPT ![r] = "forced"]
    /\ pc' = [pc EXCEPT ![r] = "done"]
    /\ resp' = [resp EXCEPT ![r] = "stopped"]
    /\ UNCHANGED <<nspawned, alive, outVars, tailVars, logVars, threaded,
                   nreq, op, bound, lines, recVars>>

\* stop_airband() that reports the forced kill to the caller
StopKillReported(r) ==
    /\ pc[r] = "kill"
    /\ SendSignal(r, process, "KILL")
    /\ path' = [path EXCEPT ![r] = "forced"]
    /\ pc' = [pc EXCEPT ![r] = "done"]
    /\ resp' = [resp EXCEPT ![r] = "killed"]
    /\ UNCHANGED <<process, nspawned, alive, outVars, tailVars, logVars, threaded,
                   nreq, op, bound, lines, recVars>>

\* lines 89-90: process.kill(), `process` read again; nothing waits for the child
StopKill(r) ==
    /\ pc[r] = "kill"
    /\ SendSignal(r, process, "KILL")
    /\ path' = [path EXCEPT ![r] = "forced"]
    /\ pc' = [pc EXCEPT ![r] = "done"]
    /\ resp' = [resp EXCEPT ![r] = "stopped"]
    /\ UNCHANGED <<process, nspawned, alive, outVars, tailVars, logVars, threaded,
                   nreq, op, bound, lines, recVars>>

\* line 96: with log_lock
LogsAcquire(r) ==
    /\ Begin(r, "logs")
    /\ log_lock = <<>>
    /\ log_lock' = Req_(r)
    /\ pc' = [pc EXCEPT ![r] = "copy"]
    /\ UNCHANGED <<supVars, outVars, tailVars, log_lines, threaded, resp, bound, lines,
                   sent, path, recVars>>

\* lines 97-98: lines = list(log_lines), the lock released, the copy returned
LogsCopy(r) ==
    /\ pc[r] = "copy"
    /\ log_lock = Req_(r)
    /\ lines' = [lines EXCEPT ![r] = log_lines]
    /\ resp' = [resp EXCEPT ![r] = "lines"]
    /\ log_lock' = <<>>
    /\ pc' = [pc EXCEPT ![r] = "done"]
    /\ UNCHANGED <<supVars, outVars, tailVars, log_lines, threaded, nreq, op,
                   bound, sent, path, recVars>>

(* ---------------------------- specifications --------------------------- *)

InitSupervisor ==
    /\ process = 0
    /\ nspawned = 0
    /\ alive = {}
    /\ sigs = [c \in Children |-> {}]
    /\ quota = MaxLines
    /\ nwritten = [c \in Children |-> 0]
    /\ pipe = [c \in Children |-> <<>>]
    /\ closed = [c \in Children |-> FALSE]
    /\ ntailers = 0
    /\ tpipe = [k \in Tailers |-> 0]
    /\ tpc = [k \in Tailers |-> "none"]
    /\ tline = [k \in Tailers |-> <<>>]
    /\ log_lines = <<>>
    /\ log_lock = <<>>
    /\ nreq = 0
    /\ pc = [r \in Reqs |-> "new"]
    /\ op = [r \in Reqs |-> "none"]
    /\ resp = [r \in Reqs |-> "none"]
    /\ lines = [r \in Reqs |-> <<>>]
    /\ bound = [r \in Reqs |-> 0]
    /\ sent = [r \in Reqs |-> <<>>]
    /\ path = [r \in Reqs |-> "none"]

InitNoRecordings ==
    /\ cfg = [kind |-> "missing", text |-> <<>>]
    /\ dirs = NoDirs
    /\ page = NoPage
    /\ http = NoResponse

\* app.run(): the development server handles each request in its own thread
Init ==
    /\ InitSupervisor
    /\ InitNoRecordings
    /\ threaded = TRUE

NextSupervisor ==
    \/ \E r \in Reqs :
        \/ StartCheck(r)
        \/ StartPopen(r)
        \/ StartPopenFails(r)
        \/ StartThread(r)
        \/ StopCheck(r)
        \/ StopTerminate(r)
        \/ StopWaitCall(r)
        \/ StopWaitReturns(r)
        \/ StopWaitTimesOut(r)
        \/ StopKill(r)
        \/ LogsAcquire(r)
        \/ LogsCopy(r)
    \/ \E c \in Children :
        \/ ChildWrite(c)
        \/ ChildExit(c)
    \/ \E k \in Tailers :
        \/ TailerReadline(k)
        \/ TailerAcquire(k)
        \/ TailerAppend(k)
        \/ TailerClose(k)

Next == NextSupervisor

Spec == Init /\ [][Next]_vars

\* the same server with its requests served one at a time
InitSeq ==
    /\ InitSupervisor
    /\ InitNoRecordings
    /\ threaded = FALSE

SpecSeq == InitSeq /\ [][Next]_vars

\* the steps a request's handler thread takes once the request has arrived
HandlerStep(r) ==
    \/ StartPopen(r)
    \/ StartPopenFails(r)
    \/ StartThread(r)
    \/ StopTerminate(r)
    \/ StopWaitCall(r)
    \/ StopWaitReturns(r)
    \/ StopWaitTimesOut(r)
    \/ StopKill(r)
    \/ LogsCopy(r)

\* the steps of one tailer thread
TailerStep(k) ==
    \/ TailerReadline(k)
    \/ TailerAcquire(k)
    \/ TailerAppend(k)
    \/ TailerClose(k)

\* the threads are scheduled: while some handler can take a step one of them
\* does, and likewise the tailers. Every thread takes finitely many steps, so
\* this gives each thread its turn. Nothing is assumed of the arrival of
\* requests nor of the child (it may run for ever, write or not).
Fairness ==
    /\ WF_vars(\E r \in Reqs : HandlerStep(r))
    /\ WF_vars(\E k \in Tailers : TailerStep(k))

SpecFair == Init /\ [][Next]_vars /\ Fairness

(* ------------------------- filling the log buffer ----------------------- *)

\* One child is running, started by the first request; the other requests of
\* the run were POST /start too. The child writes up to LogLines lines.
InitFresh ==
    /\ process = 1
    /\ nspawned = 1
    /\ alive = {1}
    /\ sigs = [c \in Children |-> {}]
    /\ quota = LogLines
    /\ nwritten = [c \in Children |-> 0]
    /\ pipe = [c \in Children |-> <<>>]
    /\ closed = [c \in Children |-> FALSE]
    /\ ntailers = 1
    /\ tpipe = [k \in Tailers |-> IF k = 1 THEN 1 ELSE 0]
    /\ tpc = [k \in Tailers |-> IF k = 1 THEN "readline" ELSE "none"]
    /\ tline = [k \in Tailers |-> <<>>]
    /\ log_lines = <<>>
    /\ log_lock = <<>>
    /\ nreq = MaxReq
    /\ pc = [r \in Reqs |-> IF r <= MaxReq THEN "done" ELSE "new"]
    /\ op = [r \in Reqs |-> IF r <= MaxReq THEN "start" ELSE "none"]
    /\ resp = [r \in Reqs |-> IF r = 1 THEN "started"
                              ELSE IF r <= MaxReq THEN "already_running" ELSE "none"]
    /\ lines = [r \in Reqs |-> <<>>]
    /\ bound = [r \in Reqs |-> 0]
    /\ sent = [r \in Reqs |-> <<>>]
    /\ path = [r \in Reqs |-> "none"]

\* The server has run for a while. Child 1 wrote maxlen - 1 lines and exited,
\* and its tailer appended them all and ended. Child 2 wrote one line and
\* exited; its tailer has not read the line yet. Child 3 was started after
\* that and is running. The requests counted are those that arrive from now.
InitCarried ==
    /\ process = 3
    /\ nspawned = 3
    /\ alive = {3}
    /\ sigs = [c \in Children |-> {}]
    /\ quota = MaxLines
    /\ nwritten = [c \in Children |-> IF c = 1 THEN maxlen - 1 ELSE IF c = 2 THEN 1 ELSE 0]
    /\ pipe = [c \in Children |-> IF c = 2 THEN <<Line(2, 1)>> ELSE <<>>]
    /\ closed = [c \in Children |-> c = 1]
    /\ ntailers = 3
    /\ tpipe = [k \in Tailers |-> IF k <= 3 THEN k ELSE 0]
    /\ tpc = [k \in Tailers |-> IF k = 1 THEN "done"
                                ELSE IF k <= 3 THEN "readline" ELSE "none"]
    /\ tline = [k \in Tailers |-> <<>>]
    /\ log_lines = [i \in 1..(maxlen - 1) |-> rstrip(Line(1, i))]
    /\ log_lock = <<>>
    /\ nreq = 0
    /\ pc = [r \in Reqs |-> "new"]
    /\ op = [r \in Reqs |-> "none"]
    /\ resp = [r \in Reqs |-> "none"]
    /\ lines = [r \in Reqs |-> <<>>]
    /\ bound = [r \in Reqs |-> 0]
    /\ sent = [r \in Reqs |-> <<>>]
    /\ path = [r \in Reqs |-> "none"]

InitLog ==
    /\ InitFresh \/ InitCarried
    /\ InitNoRecordings
    /\ threaded = TRUE

\* the children write, the tailers append, and the requests are GET /logs
NextLog ==
    \/ \E r \in Reqs :
        \/ LogsAcquire(r)
        \/ LogsCopy(r)
    \/ \E c \in Children :
        \/ ChildWrite(c)
        \/ ChildExit(c)
    \/ \E k \in Tailers :
        \/ TailerReadline(k)
        \/ TailerAcquire(k)
        \/ TailerAppend(k)
        \/ TailerClose(k)

SpecLog == InitLog /\ [][NextLog]_vars

(* ------------------------ the recordings routes ------------------------ *)

RecPath == <<"/", "r">>
OtherPath == <<"/", "q">>

Assign(dir) == Keyword \o <<" ", "=", " ", Quote>> \o dir \o <<Quote>>

\* the configuration files of the model
Configs ==
    { [kind |-> "missing", text |-> <<>>],
      [kind |-> "denied", text |-> <<>>] }
    \cup
    { [kind |-> "text", text |-> t] : t \in
        { <<>>,
          Assign(RecPath),
          Keyword \o <<"=", Quote>> \o RecPath \o <<Quote>>,
          <<"m", "o", "d", "e", " ", "=", " ", Quote, "a", "m", Quote, "\n">> \o Assign(RecPath),
          Keyword \o <<" ", "=", " ", Quote, Quote>>,
          Keyword \o <<" ", "=", " ", Quote>> \o RecPath,
          Keyword \o <<" ", Quote>> \o RecPath \o <<Quote>>,
          <<"m", "o", "d", "e", " ", "=", " ", Quote, "a", "m", Quote>>,
          Keyword \o <<" ", "=", " ", Quote, Quote, "\n">> \o Assign(RecPath),
          Assign(OtherPath) \o <<"\n">> \o Assign(RecPath) } }

\* the file names of the model
FileNames ==
    { <<"a", ".", "m", "p", "3">>,
      <<"B", ".", "W", "A", "V">>,
      <<"c", ".", "o", "g", "g">>,
      <<"n", ".", "t", "x", "t">>,
      <<"m", "p", "3">> }

\* the directories of at most MaxEntries entries, each a file or a directory
Listings ==
    UNION { [names -> {"file", "dir"}] :
            names \in {N \in SUBSET FileNames : Cardinality(N) <= MaxEntries} }

EntriesOf(l) == {[name |-> n, kind |-> l[n]] : n \in DOMAIN l}

InitRec ==
    /\ InitSupervisor
    /\ threaded = TRUE
    /\ cfg \in Configs
    /\ dirs \in {NoDirs} \cup {[dir \in {RecPath} |-> EntriesOf(l)] : l \in Listings}
    /\ page = NoPage
    /\ http = NoResponse

NextRec ==
    \/ Index
    \/ \E f \in FileNames : ServeRecording(f)

SpecRec == InitRec /\ [][NextRec]_vars

(* ------------------------------- claims -------------------------------- *)

\* request q is the call made right after request r: nothing arrived between
Next_(r, q) == q = r + 1

\* request r is entered in this step, for route
Enters(r, route) == pc[r] = "new" /\ pc'[r] # "new" /\ op'[r] = route

Returned(r, route, status) == op[r] = route /\ pc[r] = "done" /\ resp[r] = status

\* C1 as stated: when a start() that returned 'started' is followed by another
\* start(), the second one returns 'already_running'.
C1_SecondStartAlreadyRunning ==
    \A r, q \in Reqs :
        (Next_(r, q) /\ Returned(r, "start", "started") /\ op[q] = "start")
            => Returned(q, "start", "already_running")

\* C1, amended: the second start() returns 'already_running' when the child
\* the first one spawned has not exited by then.
C1_SecondStartWhileAlive ==
    [][\A r, q \in Reqs :
        (Next_(r, q) /\ Returned(r, "start", "started") /\ Enters(q, "start")
           /\ nspawned \in alive)
            => (pc'[q] = "done" /\ resp'[q] = "already_running")]_vars

C1_Witness ==
    \E r, q \in Reqs :
        Next_(r, q) /\ Returned(r, "start", "started")
            /\ Returned(q, "start", "already_running")

\* C2: after start() returned 'started' and the next stop() returned 'stopped',
\* the stop() after that returns 'not_running', whichever way the child was
\* stopped.
C2_StopAfterStopNotRunning ==
    \A r, q, u \in Reqs :
        (Next_(r, q) /\ Next_(q, u) /\ Returned(r, "start", "started")
           /\ Returned(q, "stop", "stopped") /\ op[u] = "stop")
            => Returned(u, "stop", "not_running")

\* C3: at most one child is alive, whatever the interleaving of the requests.
C3_AtMostOneChildAlive == Cardinality(alive) <= 1

\* C4: the log buffer never holds more than 200 lines, and no GET /logs
\* response carries more than 200.
C4_BufferBounded ==
    /\ Len(log_lines) <= maxlen
    /\ \A r \in Reqs : (op[r] = "logs" /\ pc[r] = "done") => Len(lines[r]) <= maxlen

\* the buffer is full, lines were dropped from it, the tailers of two children
\* have appended to it, and a reader was answered with a full buffer
C4_Witness ==
    /\ nspawned = 3
    /\ Len(log_lines) = maxlen
    /\ \E r \in Reqs : op[r] = "logs" /\ pc[r] = "done" /\ Len(lines[r]) = maxlen
    /\ \E i, j \in 1..maxlen : log_lines[i] = rstrip(Line(2, 1))
                                /\ log_lines[j] = rstrip(Line(3, 1))
    /\ log_lines[1] # rstrip(Line(1, 1))

\* the lines the one tailer has appended: those written, less those in the pipe
\* and the one in the tailer's hands
Appended1 ==
    nwritten[1] - Len(pipe[1]) - (IF tpc[1] \in {"lock", "append"} THEN 1 ELSE 0)

\* the last n items of s
LastN(s, n) == IF Len(s) <= n THEN s ELSE SubSeq(s, Len(s) - n + 1, Len(s))

OneTailer == nspawned = 1 /\ ntailers = 1

C6_StopNotRunningNoEffect ==
    [][\A r \in Reqs :
        (Enters(r, "stop") /\ (process = 0 \/ process \notin alive))
            => /\ pc'[r] = "done"
               /\ resp'[r] = "not_running"
               /\ sent'[r] = <<>>
               /\ UNCHANGED <<supVars, outVars, tailVars, logVars>>]_vars

\* stop() found the tracked child exited, with its output in the buffer
C6_Witness ==
    /\ process # 0
    /\ process \notin alive
    /\ log_lines # <<>>
    /\ \E r \in Reqs : Returned(r, "stop", "not_running")

\* C7: a start() that finds the tracked process running returns
\* 'already_running'; it spawns nothing, launches no tailer and changes
\* neither handle nor buffer.
C7_StartAlreadyRunningNoEffect ==
    [][\A r \in Reqs :
        (Enters(r, "start") /\ process # 0 /\ process \in alive)
            => /\ pc'[r] = "done"
               /\ resp'[r] = "already_running"
               /\ UNCHANGED <<supVars, outVars, tailVars, logVars>>]_vars

C7_Witness ==
    /\ process \in alive
    /\ ntailers = 1
    /\ \E r \in Reqs : Returned(r, "start", "already_running")

\* C8: a stop() that finds the tracked process running goes on to stop it, and
\* returns 'stopped' whether the child exited within the wait or was killed.
C8_StoppedBothWays ==
    /\ [](\A r \in Reqs :
            (op[r] = "stop" /\ pc[r] = "done" /\ path[r] \in {"graceful", "forced"})
                => resp[r] = "stopped")
    /\ [][\A r \in Reqs :
            (Enters(r, "stop") /\ process # 0 /\ process \in alive)
                => pc'[r] = "terminate"]_vars
    /\ [][\A r \in Reqs :
            (pc[r] \in {"terminate", "wait", "waiting", "kill"} /\ pc'[r] = "done")
                => (resp'[r] = "stopped" /\ path'[r] \in {"graceful", "forced"})]_vars

\* one stop() returned after the kill, another after the child exited in time
C8_Witness ==
    \E r, q \in Reqs :
        /\ Returned(r, "stop", "stopped") /\ path[r] = "forced"
        /\ Returned(q, "stop", "stopped") /\ path[q] = "graceful"

\* the configured directory: the group of the first match
ConfiguredEntries ==
    LET d == GetRecordingsDir IN
    IF d.kind = "path" /\ IsDir(d.value) THEN dirs[d.value] ELSE {}

\* the extension of a name: what follows its last dot, in lower case
HasExtension(name, ext) ==
    \E i \in 1..Len(name) :
        /\ name[i] = "."
        /\ \A j \in (i + 1)..Len(name) : name[j] # "."
        /\ Lower(SubSeq(name, i + 1, Len(name))) = ext

IsAudioName(name) ==
    \E ext \in {<<"m", "p", "3">>, <<"w", "a", "v">>, <<"o", "g", "g">>} :
        HasExtension(name, ext)

IsAscending(names) ==
    \A i, j \in 1..Len(names) : i < j => StrLess(names[i], names[j])

\* C9: the listing is exactly the regular files of the configured directory
\* named *.mp3, *.wav or *.ogg, in ascending order.
C9_ListingIsAudioFiles ==
    page.status = 200 =>
        /\ {page.recordings[i] : i \in 1..Len(page.recordings)}
             = {e.name : e \in {x \in ConfiguredEntries :
                                  x.kind = "file" /\ IsAudioName(x.name)}}
        /\ IsAscending(page.recordings)

\* text holds an assignment directory = "...": the keyword, an equals sign and
\* a quoted value that is not empty, with blanks at most between them
HasAssignment(text) ==
    \E i \in 1..(Len(text) - Len(Keyword) + 1) :
        /\ SubSeq(text, i, i + Len(Keyword) - 1) = Keyword
        /\ \E e \in (i + Len(Keyword))..Len(text) :
            /\ text[e] = "="
            /\ \A j \in (i + Len(Keyword))..(e - 1) : text[j] \in Space
            /\ \E q \in (e + 1)..Len(text) :
                /\ text[q] = Quote
                /\ \A j \in (e + 1)..(q - 1) : text[j] \in Space
                /\ \E z \in (q + 2)..Len(text) :
                    /\ text[z] = Quote
                    /\ \A j \in (q + 1)..(z - 1) : text[j] # Quote

NoDirectoryConfigured ==
    \/ cfg.kind = "missing"
    \/ cfg.kind = "text" /\ ~HasAssignment(cfg.text)

\* C10: with the configuration file missing, or holding no directory = "..."
\* assignment, /recordings/<filename> is answered 404 and nothing is raised.
C10_NotConfiguredIs404 ==
    (NoDirectoryConfigured /\ http # NoResponse)
        => (http.status = 404 /\ http.body = NotConfigured)

\* the file names the keyword, but assigns no directory
C10_Witness ==
    /\ cfg.kind = "text"
    /\ \E i \in 1..(Len(cfg.text) - Len(Keyword) + 1) :
          SubSeq(cfg.text, i, i + Len(Keyword) - 1) = Keyword
    /\ ~HasAssignment(cfg.text)
    /\ http.status = 404

\* the names of the signals the handler of r sent, in order
SentNames(r) == [i \in 1..Len(sent[r]) |-> sent[r][i][1]]

\* C11: one stop() call sends the graceful signal first and the kill after it,
\* at most one of each; the kill is sent only when the wait timed out with the
\* waited process still running, and never after the wait returned.
C11_TerminateThenKill ==
    /\ [](\A r \in Reqs :
            /\ SentNames(r) \in {<<>>, <<"TERM">>, <<"TERM", "KILL">>}
            /\ (pc[r] \in {"wait", "waiting", "kill"}) => SentNames(r) = <<"TERM">>
            /\ (pc[r] = "done" /\ path[r] = "graceful") => SentNames(r) = <<"TERM">>
            /\ (pc[r] = "done" /\ path[r] = "forced") => SentNames(r) = <<"TERM", "KILL">>)
    /\ [][\A r \in Reqs :
            (sent'[r] # sent[r] /\ SentNames(r)' = <<"TERM", "KILL">>)
                => (pc[r] = "kill" /\ path'[r] = "forced")]_vars
    /\ [][\A r \in Reqs :
            (pc'[r] = "kill" /\ pc[r] # "kill")
                => (pc[r] = "waiting" /\ bound[r] \in alive)]_vars
    /\ [][\A r \in Reqs :
            (pc[r] = "waiting" /\ bound[r] \notin alive /\ pc'[r] # pc[r])
                => (pc'[r] = "done" /\ sent'[r] = sent[r])]_vars

\* a stop() that sent both signals to the child it found running
C11_Witness ==
    \E r \in Reqs : \E c \in Children :
        /\ Returned(r, "stop", "stopped")
        /\ path[r] = "forced"
        /\ sent[r] = <<<<"TERM", c>>, <<"KILL", c>>>>
        /\ sigs[c] = {"TERM", "KILL"}

\* the tailers that have been launched and have not ended
LiveTailers == {k \in Tailers : tpc[k] \in {"readline", "lock", "append", "close"}}

\* C12: at most one tailer is live at any time, and no two tailers read the
\* same child's stream.
C12_AtMostOneTailerLive ==
    /\ Cardinality(LiveTailers) <= 1
    /\ \A k \in Tailers : \A j \in Tailers :
           (k # j /\ tpc[k] # "none" /\ tpc[j] # "none") => tpipe[k] # tpipe[j]

\* the stream tailer k reads has reached end-of-stream: its child has exited
AtEndOfStream(k) == tpc[k] # "none" /\ tpipe[k] \notin alive

\* C13: once its child's stream is at end-of-stream, every tailer appends what
\* is left in the pipe, closes it and ends, and no tailer ever raises.
C13_TailerEndsAtEof ==
    \A k \in Tailers :
        /\ [](tpc[k] # "fault")
        /\ [](AtEndOfStream(k) => <>(tpc[k] = "done" /\ pipe[tpipe[k]] = <<>>))

\* the threads inside a `with log_lock` block
InLockedBlock ==
    {Tail_(k) : k \in {j \in Tailers : tpc[j] = "append"}}
        \cup {Req_(r) : r \in {q \in Reqs : pc[q] = "copy"}}

\* C14: the buffer is appended to and copied only by the thread holding
\* log_lock, at most one thread is inside a locked block, and the list GET /logs
\* returns is the buffer as it is at the moment of the copy, which no append
\* can fall into.
C14_LockGuardsBuffer ==
    /\ [](/\ Cardinality(InLockedBlock) <= 1
          /\ InLockedBlock = (IF log_lock = <<>> THEN {} ELSE {log_lock}))
    /\ [][log_lines' # log_lines
            => \E k \in Tailers : log_lock = Tail_(k) /\ tpc[k] = "append" /\ tpc'[k] # "append"]_vars
    /\ [][\A r \in Reqs :
            (pc[r] = "copy" /\ pc'[r] = "done")
                => (log_lock = Req_(r) /\ lines'[r] = log_lines /\ log_lines' = log_lines)]_vars
    /\ [][\A r \in Reqs : pc[r] = "copy" => log_lines' = log_lines]_vars
    /\ [][\A r \in Reqs : lines'[r] # lines[r] => pc[r] = "copy"]_vars

\* a reader holds the lock while a tailer waits for it with a line to append,
\* after another reader took its copy of a buffer that has changed since
C14_Witness ==
    \E r \in Reqs : \E q \in Reqs : \E k \in Tailers :
        /\ pc[r] = "copy" /\ log_lock = Req_(r)
        /\ tpc[k] = "lock" /\ tline[k] # <<>>
        /\ Returned(q, "logs", "lines") /\ lines[q] # log_lines

\* C15: only a tailer's append changes the log buffer; no step of start(),
\* stop() or GET /logs changes it, and a start() that spawns a new child leaves
\* the lines of earlier children in it.
C15_OnlyTailerAppends ==
    /\ [][log_lines' # log_lines
            => \E k \in Tailers :
                  /\ tpc[k] = "append" /\ tpc'[k] = "readline"
                  /\ log_lines' = DequeAppend(log_lines, rstrip(tline[k]))]_vars
    /\ [][(pc' # pc \/ resp' # resp \/ process' # process \/ nreq' # nreq)
            => log_lines' = log_lines]_vars

\* after a restart that returned 'started', the log still holds a line of the
\* first child
C15_Witness ==
    \E r \in Reqs : \E q \in Reqs :
        /\ r < q
        /\ Returned(r, "start", "started")
        /\ Returned(q, "start", "started")
        /\ nspawned = 2
        /\ log_lines # <<>>
        /\ log_lines[1] = rstrip(Line(1, 1))

\* C16: a start() whose spawn fails ends in a fault (not 'started', not
\* 'already_running') in the very step of the failure, without a second attempt
\* and without changing the handle, the children, the tailers or the log; a
\* later start() that finds no tracked child running goes on to spawn again.
C16_SpawnFailureLeavesState ==
    /\ [][\A r \in Reqs :
            (pc[r] = "popen" /\ pc'[r] # "thread")
                => /\ pc'[r] \in {"popen", "done"}
                   /\ pc'[r] = "done" =>
                        /\ resp'[r] = "fault"
                        /\ UNCHANGED <<process, nspawned, alive, sigs, ntailers, tpipe,
                                       tpc, log_lines, log_lock>>]_vars
    /\ [](\A r \in Reqs :
            (op[r] = "start" /\ pc[r] = "done")
                => resp[r] \in {"started", "already_running", "fault"})
    /\ [][\A r \in Reqs : resp[r] = "fault"
            => (pc[r] = "done" /\ pc'[r] = "done" /\ resp'[r] = "fault")]_vars
    /\ [][\A r \in Reqs : \A q \in Reqs :
            (/\ r < q
             /\ Returned(r, "start", "fault")
             /\ Enters(q, "start")
             /\ ~(process # 0 /\ process \in alive))
                => pc'[q] = "popen"]_vars

\* a start() failed before anything was spawned, and a later start() spawned
\* the first child
C16_Witness ==
    \E r \in Reqs : \E q \in Reqs :
        /\ r < q
        /\ Returned(r, "start", "fault")
        /\ pc[q] = "thread"
        /\ nspawned = 1

\* C17: with requests served one at a time, at most one child is alive and a
\* child that is alive is the one `process` names.
C17_AliveChildIsTracked ==
    /\ Cardinality(alive) <= 1
    /\ \A c \in alive : process = c

\* a child was killed by force, its successor is alive and tracked, after the
\* exit of the first
C17_Witness ==
    /\ \E r \in Reqs : Returned(r, "stop", "stopped") /\ path[r] = "forced"
    /\ "KILL" \in sigs[1]
    /\ nspawned = 2
    /\ alive = {2}
    /\ process = 2

\* C18: every stop() that has begun ends with 'stopped' or 'not_running',
\* whatever the child does with the signals; at no point of the call is the
\* handler blocked, whoever holds log_lock; and the kill is followed by the
\* return, not by another wait.
C18_StopResponds ==
    /\ <>[](\A r \in Reqs :
              op[r] = "stop" => (pc[r] = "done" /\ resp[r] \in {"stopped", "not_running"}))
    /\ [](\A r \in Reqs :
            pc[r] \in {"terminate", "wait", "waiting", "kill"} => ENABLED HandlerStep(r))
    /\ [][\A r \in Reqs : (pc[r] = "kill" /\ pc'[r] # "kill") => pc'[r] = "done"]_vars

\* stop() has returned although the child ignored the graceful signal and has
\* not died of the kill yet, while a tailer holds log_lock
C18_Witness ==
    \E r \in Reqs : \E k \in Tailers :
        /\ Returned(r, "stop", "stopped")
        /\ path[r] = "forced"
        /\ process \in alive
        /\ sigs[process] = {"TERM", "KILL"}
        /\ log_lock = Tail_(k)

\* the child that wrote a logged line, and the line's number in its stream
WriterOf(entry) == entry[1] \div 1000
NumberOf(entry) == entry[1] % 1000

\* the number of lines of child c in the log
LoggedOf(c) == Cardinality({i \in 1..Len(log_lines) : WriterOf(log_lines[i]) = c})

\* no thread of the server has a step left to take
AllThreadsEnded ==
    /\ \A r \in Reqs : pc[r] \in {"new", "done"}
    /\ \A k \in Tailers : tpc[k] \in {"none", "done", "fault"}

\* C19: the lines of one child are in the log in the order written, none
\* twice; and once every thread has ended and the child has exited, each line
\* the child wrote is in the log (nothing is evicted: fewer than maxlen lines
\* are written).
C19_EachLineOnceInOrder ==
    /\ \A i \in 1..Len(log_lines) : \A j \in 1..Len(log_lines) :
          (i < j /\ WriterOf(log_lines[i]) = WriterOf(log_lines[j]))
              => NumberOf(log_lines[i]) < NumberOf(log_lines[j])
    /\ \A c \in Children :
          (AllThreadsEnded /\ c \notin alive /\ c <= nspawned)
              => LoggedOf(c) = nwritten[c]

\* the tailers launched on the stream of child c
TailersOf(c) == {k \in Tailers : tpc[k] # "none" /\ tpipe[k] = c}

\* C20: once the handlers have returned, the children spawned are as many as
\* the start() calls answered 'started', and each of those children has exactly
\* one tailer on its stream, the one its start() launched; a start() that finds
\* the tracked child exited goes on to spawn, it is not answered
\* 'already_running'.
C20_OneChildOneTailerPerStart ==
    /\ []((\A r \in Reqs : pc[r] \in {"new", "done"})
            => /\ nspawned = Cardinality({r \in Reqs : Returned(r, "start", "started")})
               /\ ntailers = nspawned
               /\ \A c \in Children : c <= nspawned => Cardinality(TailersOf(c)) = 1)
    /\ [](\A c \in Children : Cardinality(TailersOf(c)) <= 1)
    /\ [][\A q \in Reqs :
            (Enters(q, "start") /\ process # 0 /\ process \notin alive)
                => pc'[q] = "popen"]_vars

=============================================================================
